---------------------------- MODULE Spec2Model ----------------------------
(***************************************************************************)
(* duck_access: the manifest cache (ManifestCache), the manifest parser    *)
(* (ParseManifest), the HTTP gateway (DuckAccessHttp::PostJson) and the    *)
(* replacement scan (DuckAccessScan::ReplacementScanFunction).             *)
(*                                                                         *)
(* Strings that the code concatenates are sequences of string pieces, so   *)
(* that "a" + "b" is <<"a">> \o <<"b">>.  Time is in seconds.              *)
(***************************************************************************)
EXTENDS Integers, Sequences, FiniteSets, TLC

\* ------------------------------------------------------------------ bounds

\* Number of threads that bind queries concurrently.
NumThreads == 2

Threads == 1..NumThreads

\* No thread holds the mutex.
NoThread == 0

\* The values std::chrono::system_clock::now() takes (the clock only moves
\* forward, see Tick).
ClockValues == {0, 60, 3540}

\* ------------------------------------------------------- program constants

\* std::chrono::seconds(60), the safety margin of the freshness test.
safety_margin == 60

\* std::chrono::hours(1), the fallback life time of a manifest.
one_hour == 3600

\* response.body.substr(0, 200)
body_prefix == 200

\* ------------------------------------------------------------------ strings

\* std::string -> pieces: the empty string has no piece.
Str(s) == IF s = "" THEN <<>> ELSE <<s>>

Contains(msg, piece) == \E i \in 1..Len(msg) : msg[i] = piece

\* A substr that keeps the whole string.
SubstrWhole(s, n) == s

\* s.substr(0, n) of a string given as pieces of one byte each.
Substr(s, n) == IF Len(s) <= n THEN s ELSE SubSeq(s, 1, n)

\* ------------------------------------------------------------------- JSON

JStr(s) == [jt |-> "string", v |-> s]
JNum(n) == [jt |-> "number", v |-> n]
JArr(a) == [jt |-> "array", v |-> a]
JObj(o) == [jt |-> "object", v |-> o]
\* A body that is no JSON document: json::parse throws parse_error.
JInvalid == [jt |-> "invalid"]

\* json::contains(key): false on anything that is no object.
JContains(j, key) == j.jt = "object" /\ key \in DOMAIN j.v

\* json::value(key, default) with a string default: type_error 306 when j is
\* no object, type_error 302 when the member is no string.
JValue(j, key, default) ==
    IF j.jt # "object" THEN [exc |-> "type_error", val |-> ""]
    ELSE IF key \notin DOMAIN j.v THEN [exc |-> "none", val |-> default]
    ELSE IF j.v[key].jt # "string" THEN [exc |-> "type_error", val |-> ""]
    ELSE [exc |-> "none", val |-> j.v[key].v]

\* The elements of a JSON array that are strings, in order.
RECURSIVE StringsOf(_)
StringsOf(a) ==
    IF a = <<>> THEN <<>>
    ELSE (IF Head(a).jt = "string" THEN <<Head(a).v>> ELSE <<>>) \o StringsOf(Tail(a))


\* ------------------------------------------------------------ the manifest

\* The null shared_ptr<TableManifest>.
NullPtr == [null |-> TRUE]

\* std::get_time(&tm, "%Y-%m-%dT%H:%M:%S") followed by timegm: the epoch
\* seconds of an ISO-8601 string read as UTC, -1 when the stream fails.
ParseTime(s) ==
    CASE s = "1970-01-01T00:00:00Z" -> 0
      [] s = "1970-01-01T00:02:00Z" -> 120
      [] OTHER -> -1

\* The for loop over j["columns"]: col.value("name", ""), col.value("type", "").
RECURSIVE ColumnsOf(_)
ColumnsOf(a) ==
    IF a = <<>> THEN [exc |-> "none", val |-> <<>>]
    ELSE LET n == JValue(Head(a), "name", "")
             t == JValue(Head(a), "type", "")
             rest == ColumnsOf(Tail(a))
         IN  IF n.exc # "none" \/ t.exc # "none" \/ rest.exc # "none"
             THEN [exc |-> "type_error", val |-> <<>>]
             ELSE [exc |-> "none",
                   val |-> <<[name |-> n.val, type |-> t.val]>> \o rest.val]

\* The for loop over j["column_masks"].items(): the members that are strings.
MasksOf(o) ==
    LET keep == {k \in DOMAIN o : o[k].jt = "string"}
    IN  [k \in keep |-> o[k].v]

NoMasks == [k \in {} |-> ""]

\* A fallback without the hour: the manifest expires as it is fetched.
ExpiresAtOrNow(j, now) ==
    IF JContains(j, "expires_at") /\ j.v["expires_at"].jt = "string"
    THEN LET epoch == ParseTime(j.v["expires_at"].v)
         IN  IF epoch # -1 THEN epoch ELSE now
    ELSE now

\* The expires_at branch of ParseManifest.
ExpiresAt(j, now) ==
    IF JContains(j, "expires_at") /\ j.v["expires_at"].jt = "string"
    THEN LET epoch == ParseTime(j.v["expires_at"].v)
         IN  IF epoch # -1 THEN epoch ELSE now + one_hour
    ELSE now + one_hour

\* The files the validation gate of ParseManifest looks at.
FilesOf(j) ==
    IF JContains(j, "files") /\ j.v["files"].jt = "array"
    THEN StringsOf(j.v["files"].v) ELSE <<>>

\* A parser without the validation gate.
FilesEmptyNever(files) == FALSE

\* manifest->files.empty()
FilesEmpty(files) == files = <<>>

\* ManifestCache::ParseManifest(json_body, out_error), with `now` the value
\* of system_clock::now() while it runs.  out_error is <<>> when it is left
\* untouched.
ParseManifest(json_body, now) ==
    LET j == json_body.doc
        table == JValue(j, "table", "")
        schema == JValue(j, "schema", "main")
        columns == IF JContains(j, "columns") /\ j.v["columns"].jt = "array"
                   THEN ColumnsOf(j.v["columns"].v)
                   ELSE [exc |-> "none", val |-> <<>>]
        files == FilesOf(j)
        row_filters == IF JContains(j, "row_filters") /\ j.v["row_filters"].jt = "array"
                       THEN StringsOf(j.v["row_filters"].v) ELSE <<>>
        column_masks == IF JContains(j, "column_masks") /\ j.v["column_masks"].jt = "object"
                        THEN MasksOf(j.v["column_masks"].v) ELSE NoMasks
    IN  IF j.jt = "invalid"
        THEN [manifest |-> NullPtr,
              out_error |-> <<"failed to parse manifest JSON: ", "parse_error">>]
        ELSE IF table.exc # "none" \/ schema.exc # "none" \/ columns.exc # "none"
        THEN [manifest |-> NullPtr,
              out_error |-> <<"error processing manifest: ", "type_error">>]
        ELSE IF FilesEmpty(files)
        THEN [manifest |-> NullPtr,
              out_error |-> <<"manifest contains no data files for table '">>
                            \o Str(table.val) \o <<"'">>]
        ELSE [manifest |-> [table |-> table.val,
                            schema |-> schema.val,
                            columns |-> columns.val,
                            files |-> files,
                            row_filters |-> row_filters,
                            column_masks |-> column_masks,
                            expires_at |-> ExpiresAt(j, now),
                            fetched_at |-> now],
              out_error |-> <<>>]

\* ------------------------------------------------------- the query rewrite

\* Parsed expressions of the host engine.
Expr(class, text, alias, children) ==
    [class |-> class, text |-> text, alias |-> alias, children |-> children]

ColumnRefExpression(name) == Expr("COLUMN_REF", name, "", <<>>)
StarExpression == Expr("STAR", "*", "", <<>>)
ConjunctionExpression(left, right) == Expr("CONJUNCTION_AND", "", "", <<left, right>>)
ParsedSql(text, alias) == Expr("PARSED", text, alias, <<>>)

\* The expressions a piece of SQL text holds, left to right, separated by
\* commas at the top level; <<>> when the text is no expression list.
SqlExprs(text) ==
    CASE text = "'***'" -> <<"'***'">>
      [] text = "'x'" -> <<"'x'">>
      [] text = "x, y" -> <<"x", "y">>
      [] text = "age > 18" -> <<"age > 18">>
      [] text = "region = 'US'" -> <<"region = 'US'">>
      [] OTHER -> <<>>

\* KeywordHelper::WriteOptionallyQuoted(col.name): the identifier, in double
\* quotes when it is no plain lower-case identifier.
WriteOptionallyQuoted(name) ==
    IF name \in {"Name"} THEN <<"\"", name, "\"">> ELSE <<name>>

\* The identifier a (possibly quoted) identifier text denotes.
Unquoted(ident) == IF Len(ident) = 3 THEN ident[2] ELSE ident[1]

\* Parser::ParseExpressionList(sql): the select list of "SELECT " + sql.
\* sql is either one text, or text + " AS " + identifier, where the alias
\* binds to the last expression of the list.
ParseExpressionList(sql) ==
    LET es == SqlExprs(sql[1])
        n == Len(es)
    IN  IF Len(sql) = 1
        THEN [i \in 1..n |-> ParsedSql(es[i], "")]
        ELSE [i \in 1..n |->
                 ParsedSql(es[i], IF i = n THEN Unquoted(SubSeq(sql, 3, Len(sql))) ELSE "")]

\* read_parquet([url1, url2, ...]): the function expression over the LIST
\* constant of the manifest's files.
ReadParquet(manifest) ==
    [function_name |-> "read_parquet", children |-> <<[list |-> manifest.files]>>]

\* The select list entry of one column when masks exist.
ProjectColumn(manifest, col) ==
    IF col.name \in DOMAIN manifest.column_masks
    THEN LET mask_sql == <<manifest.column_masks[col.name], " AS ">>
                         \o WriteOptionallyQuoted(col.name)
             expressions == ParseExpressionList(mask_sql)
         IN  IF expressions # <<>> THEN expressions[1]
             ELSE ColumnRefExpression(col.name)
    ELSE ColumnRefExpression(col.name)

\* The SELECT list of the subquery.
SelectList(manifest) ==
    IF DOMAIN manifest.column_masks = {}
    THEN <<StarExpression>>
    ELSE [i \in 1..Len(manifest.columns) |-> ProjectColumn(manifest, manifest.columns[i])]

\* No WHERE clause / no combined filter yet (a null unique_ptr).
NoExpr == Expr("NULL", "", "", <<>>)

\* The loop that combines the row filters with AND.
RECURSIVE CombineFilters(_, _)
CombineFilters(row_filters, combined_filter) ==
    IF row_filters = <<>> THEN combined_filter
    ELSE LET filter_exprs == ParseExpressionList(<<Head(row_filters)>>)
         IN  IF filter_exprs = <<>>
             THEN CombineFilters(Tail(row_filters), combined_filter)
             ELSE IF combined_filter = NoExpr
             THEN CombineFilters(Tail(row_filters), filter_exprs[1])
             ELSE CombineFilters(Tail(row_filters),
                                 ConjunctionExpression(combined_filter, filter_exprs[1]))

\* A rewrite without the direct scan: always the subquery.
BuildTableRefWrapped(manifest, table_name) ==
    [type |-> "SUBQUERY",
     select_list |-> SelectList(manifest),
     from_table |-> [type |-> "TABLE_FUNCTION",
                     function |-> ReadParquet(manifest),
                     alias |-> "__duck_access_src"],
     where_clause |-> CombineFilters(manifest.row_filters, NoExpr),
     alias |-> table_name]

\* The TableRef the replacement scan returns for a manifest (steps 3 and 4).
BuildTableRef(manifest, table_name) ==
    IF manifest.row_filters = <<>> /\ DOMAIN manifest.column_masks = {}
    THEN [type |-> "TABLE_FUNCTION",
          function |-> ReadParquet(manifest),
          alias |-> table_name]
    ELSE [type |-> "SUBQUERY",
          select_list |-> SelectList(manifest),
          from_table |-> [type |-> "TABLE_FUNCTION",
                          function |-> ReadParquet(manifest),
                          alias |-> "__duck_access_src"],
          where_clause |-> CombineFilters(manifest.row_filters, NoExpr),
          alias |-> table_name]

\* BinderException("duck_access: failed to resolve table '%s': %s", ...)
BinderException(table_name, error_msg) ==
    <<"duck_access: failed to resolve table '", table_name, "': ">> \o error_msg

\* ------------------------------------------------------------- the gateway

\* HttpResponse: status_code = 0, empty body and empty error by default.
HttpResponse(status_code, body, error) ==
    [status_code |-> status_code, body |-> body, error |-> error]

\* HttpResponse::Ok()
Ok(response) == response.status_code >= 200 /\ response.status_code < 300

\* A response body: its bytes (text) and the document json::parse makes of
\* them (JInvalid when they are no JSON).
Body(id, text, doc) == [id |-> id, text |-> text, doc |-> doc]

EmptyBody == Body("empty", <<>>, JInvalid)

\* url.find("://") != npos
HasScheme(url) == Contains(url, "://")

\* DuckAccessHttp::PostJson(url, api_key, json_body): `outcome` is what the
\* network exchange gives (cli.Post), a response or an error.
PostJson(url, api_key, json_body, outcome) ==
    IF ~HasScheme(url)
    THEN HttpResponse(0, EmptyBody, <<"Invalid URL: missing scheme in '">> \o url \o <<"'">>)
    ELSE IF outcome.error # <<>>
    THEN HttpResponse(0, EmptyBody, <<"HTTP request failed: ">> \o outcome.error)
    ELSE HttpResponse(outcome.status_code, outcome.body, <<>>)

\* ------------------------------------------------------- the manifest cache

\* std::hash<std::string>{}(api_key), as std::to_string prints it.
KeyHash(api_key) ==
    CASE api_key = "key_1" -> "7021"
      [] api_key = "key_2" -> "1388"
      [] OTHER -> "0"

\* ManifestCache::CacheKey as the header declares it, with four parameters.
CacheKey(api_url, api_key, schema, table) ==
    api_url \o <<"|", KeyHash(api_key), "|", schema, ".", table>>

\* The key GetOrFetch and Invalidate use: both call
\* CacheKey(schema_name, table_name), giving the schema and the table only,
\* so neither the endpoint nor the API key reaches the key ("schema.table",
\* as the comment of the class says).
KeyOfCall(schema_name, table_name) == <<schema_name, ".", table_name>>

\* auto key = CacheKey(schema_name, table_name) in GetOrFetch: of the four
\* arguments of GetOrFetch, the key takes the schema and the table.
GetOrFetchKey(api_url, api_key, schema_name, table_name) ==
    KeyOfCall(schema_name, table_name)

\* A freshness test that takes the boundary as still valid.
StillValidInclusive(manifest, now) == manifest.expires_at - safety_margin >= now

\* manifest->expires_at - safety_margin > now
StillValid(manifest, now) == manifest.expires_at - safety_margin > now

\* err_json.value("message", fallback) inside try { json::parse } catch (...)
MessageOr(body, fallback, on_throw) ==
    IF body.doc.jt = "invalid" THEN <<on_throw>>
    ELSE LET m == JValue(body.doc, "message", fallback)
         IN  IF m.exc # "none" THEN <<on_throw>> ELSE Str(m.val)

\* std::to_string(response.status_code)
to_string(n) ==
    CASE n = 500 -> "500" [] n = 302 -> "302" [] n = 0 -> "0" [] OTHER -> "n"

\* The part of GetOrFetch after PostJson returns and before the store: the
\* classification of the response and the parse of a 2xx body.
Classify(response, now) ==
    IF response.error # <<>>
    THEN [manifest |-> NullPtr,
          out_error |-> <<"cannot reach API server: ">> \o response.error]
    ELSE IF response.status_code = 401
    \* (the dash of the source text is written " - " here)
    THEN [manifest |-> NullPtr,
          out_error |-> <<"authentication failed - check your API key">>]
    ELSE IF response.status_code = 403
    THEN [manifest |-> NullPtr,
          out_error |-> MessageOr(response.body, "access denied", "access denied")]
    ELSE IF response.status_code = 404
    THEN [manifest |-> NullPtr,
          out_error |-> MessageOr(response.body, "table not found",
                                  "table not found on server")]
    ELSE IF ~Ok(response)
    THEN [manifest |-> NullPtr,
          out_error |-> <<"API returned HTTP ", to_string(response.status_code)>>
                        \o (IF response.body.text # <<>>
                            THEN <<": ">> \o Substr(response.body.text, body_prefix)
                            ELSE <<>>)]
    ELSE ParseManifest(response.body, now)

\* ------------------------------------------------------------------ inputs

\* Credentials a session may hold (DuckAccessSecretData), or none.
NoSecret == [present |-> FALSE, api_url |-> <<>>, api_key |-> ""]
Secret(api_url, api_key) == [present |-> TRUE, api_url |-> api_url, api_key |-> api_key]

Secrets ==
    { Secret(<<"https", "://", "a.example/v1">>, "key_1"),
      Secret(<<"https", "://", "a.example/v1">>, "key_2"),
      Secret(<<"https", "://", "b.example/v1">>, "key_1"),
      Secret(<<"a.example/v1">>, "key_1") }

Tables == {"t1", "t2"}
Schemas == {"", "main"}

\* Every key a call can compute.
Keys == {KeyOfCall(s, t) : s \in Schemas, t \in Tables}

Cols(names) ==
    JArr([i \in 1..Len(names) |->
             JObj([name |-> JStr(names[i]), type |-> JStr("VARCHAR")])])

File1 == "https://store/f1.parquet"
File2 == "https://store/f2.parquet"

\* Manifest bodies the service may send with a 2xx status.
BodyPlain ==
    Body("plain", <<"{plain}">>,
         JObj([table |-> JStr("t1"), schema |-> JStr("main"),
               expires_at |-> JStr("1970-01-01T00:02:00Z"),
               columns |-> Cols(<<"a", "b">>),
               files |-> JArr(<<JStr(File1), JStr(File2)>>)]))
BodyMasked ==
    Body("masked", <<"{masked}">>,
         JObj([table |-> JStr("t1"),
               expires_at |-> JStr("1970-01-01T00:02:00Z"),
               columns |-> Cols(<<"a", "b", "Name">>),
               files |-> JArr(<<JStr(File1)>>),
               row_filters |-> JArr(<<>>),
               column_masks |-> JObj([b |-> JStr("'***'"), Name |-> JStr("'x'"),
                                      zz |-> JStr("'x'"), a |-> JNum(5)])]))
BodyOddMask ==
    Body("oddmask", <<"{oddmask}">>,
         JObj([table |-> JStr("t2"), schema |-> JStr("main"),
               expires_at |-> JStr("1970-01-01T00:02:00Z"),
               columns |-> Cols(<<"a", "b">>),
               files |-> JArr(<<JStr(File2)>>),
               column_masks |-> JObj([a |-> JStr("(("), b |-> JStr("x, y")])]))
BodyFiltered ==
    Body("filtered", <<"{filtered}">>,
         JObj([table |-> JStr("t1"), schema |-> JStr("main"),
               columns |-> Cols(<<"a">>),
               files |-> JArr(<<JStr(File1), JNum(5), JStr(File2)>>),
               row_filters |-> JArr(<<JStr("age > 18"), JStr("(("), JNum(7),
                                      JStr("region = 'US'")>>)]))
BodyListFilter ==
    Body("listfilter", <<"{listfilter}">>,
         JObj([table |-> JStr("t1"), schema |-> JStr("main"),
               expires_at |-> JStr("1970-01-01T00:02:00Z"),
               columns |-> Cols(<<"a", "b">>),
               files |-> JArr(<<JStr(File1)>>),
               row_filters |-> JArr(<<JStr("age > 18"), JStr("x, y")>>)]))
BodyBadFilter ==
    Body("badfilter", <<"{badfilter}">>,
         JObj([table |-> JStr("t2"),
               expires_at |-> JStr("soon"),
               files |-> JArr(<<JStr(File1)>>),
               row_filters |-> JArr(<<JStr("((")>>),
               column_masks |-> JArr(<<>>)]))
BodyNumExpiry ==
    Body("numexpiry", <<"{numexpiry}">>,
         JObj([table |-> JStr("t1"),
               expires_at |-> JNum(120),
               columns |-> JStr("a"),
               files |-> JArr(<<JStr(File2)>>)]))
BodyExpired ==
    Body("expired", <<"{expired}">>,
         JObj([table |-> JStr("t1"),
               expires_at |-> JStr("1970-01-01T00:00:00Z"),
               files |-> JArr(<<JStr(File1)>>)]))
BodyFilesAbsent ==
    Body("files_absent", <<"{files_absent}">>,
         JObj([table |-> JStr("t1"), columns |-> Cols(<<"a">>)]))
BodyFilesNoArray ==
    Body("files_no_array", <<"{files_no_array}">>,
         JObj([table |-> JStr("t1"), files |-> JStr(File1)]))
BodyFilesNone ==
    Body("files_none", <<"{files_none}">>,
         JObj([schema |-> JStr("main"), files |-> JArr(<<>>),
               row_filters |-> JArr(<<JStr("age > 18")>>)]))
BodyFilesNoString ==
    Body("files_no_string", <<"{files_no_string}">>,
         JObj([table |-> JStr("t2"), files |-> JArr(<<JNum(1), JObj([u |-> JStr(File1)])>>)]))
BodyTableNumber ==
    Body("table_number", <<"{table_number}">>,
         JObj([table |-> JNum(5), files |-> JArr(<<JStr(File1)>>)]))
BodyColumnNumber ==
    Body("column_number", <<"{column_number}">>,
         JObj([table |-> JStr("t1"), columns |-> JArr(<<JNum(3)>>),
               files |-> JArr(<<JStr(File1)>>)]))
BodyArray == Body("array", <<"[1]">>, JArr(<<JNum(1)>>))
BodyNoJson == Body("no_json", <<"<html>">>, JInvalid)

\* Error bodies.
BodyMessage ==
    Body("message", <<"{message}">>, JObj([message |-> JStr("no such table")]))
BodyNoMessage ==
    Body("no_message", <<"{code}">>, JObj([code |-> JNum(1)]))
BodyMessageNumber ==
    Body("message_number", <<"{message:5}">>, JObj([message |-> JNum(5)]))
\* A body of body_prefix + 1 bytes.
BodyLong == Body("long", [i \in 1..(body_prefix + 1) |-> "x"], JInvalid)

ManifestBodies ==
    <<BodyPlain, BodyMasked, BodyOddMask, BodyFiltered, BodyListFilter, BodyBadFilter,
      BodyNumExpiry,
      BodyExpired, BodyFilesAbsent, BodyFilesNoArray, BodyFilesNone, BodyFilesNoString,
      BodyTableNumber, BodyColumnNumber, BodyArray, BodyNoJson>>

ErrorBodies == <<BodyMessage, BodyNoMessage, BodyMessageNumber, BodyNoJson>>

\* What the network exchange of one PostJson may give.
Answer(status_code, body) == [status_code |-> status_code, body |-> body, error |-> <<>>]
Failure(cause) == [status_code |-> 0, body |-> EmptyBody, error |-> <<cause>>]

Outcomes ==
    <<Failure("Connection")>>
    \o [i \in 1..Len(ManifestBodies) |-> Answer(200, ManifestBodies[i])]
    \o <<Answer(204, EmptyBody), Answer(401, BodyMessage)>>
    \o [i \in 1..Len(ErrorBodies) |-> Answer(403, ErrorBodies[i])]
    \o [i \in 1..Len(ErrorBodies) |-> Answer(404, ErrorBodies[i])]
    \o <<Answer(500, EmptyBody), Answer(500, BodyLong), Answer(302, BodyMessage)>>

\* ------------------------------------------------------------------- state

VARIABLES
    clock,          \* std::chrono::system_clock::now()
    cache_,         \* ManifestCache::cache_: key -> manifest, NullPtr when absent
    cache_mutex_,   \* ManifestCache::cache_mutex_: the thread that holds it
    pc,             \* where each thread is
    input,          \* the arguments of the operation a thread runs
    key,            \* GetOrFetch / Invalidate: auto key
    now,            \* GetOrFetch: auto now
    response,       \* GetOrFetch: auto response
    manifest,       \* GetOrFetch: the manifest found or parsed
    out_error,      \* GetOrFetch: out_error (error_msg of the caller)
    it,             \* GetOrFetch: what cache_.find(key) gave: "end" for
                    \* cache_.end(), else whether the entry was still valid
    ncalls,         \* PostJson calls GetOrFetch has made in the current call
    result,         \* what the operation returned to its caller
    invalidated,    \* history: the key the last Invalidate erased with no
                    \* other operation on the key in progress, and the expiry
                    \* of the erased entry, until the next lookup of the key
    raced,          \* history: another thread stored under this thread's key
                    \* after this thread's lookup
    overtaken,      \* history: an Invalidate of this thread's key completed
                    \* after this thread's PostJson call began and before
                    \* its store
    late            \* history: the keys whose entry was stored by a fetch
                    \* that an Invalidate had overtaken

vars == <<clock, cache_, cache_mutex_, pc, input, key, now, response, manifest,
          out_error, it, ncalls, result, invalidated, raced, overtaken, late>>

\* The variables of one thread's operation, and the history variables.
locals == <<input, key, now, response, manifest, out_error, it, ncalls, result>>
history == <<invalidated, raced, overtaken, late>>

NoInput == [op |-> "none", secret |-> NoSecret, schema_name |-> "", table_name |-> ""]
NoKey == <<>>
NoResponse == [status_code |-> 0, body |-> EmptyBody, error |-> <<>>]
\* Results of an operation.
NoResult == [kind |-> "none"]
\* No Invalidate since the last lookup of the key.
NotInvalidated == [key |-> NoKey, expires_at |-> -1]
ReturnNull == [kind |-> "nullptr"]
ReturnVoid == [kind |-> "void"]
Throw(message) == [kind |-> "throw", message |-> message]
ReturnRef(ref) == [kind |-> "ref", ref |-> ref]

Init ==
    /\ clock = 0
    /\ cache_ = [k \in Keys |-> NullPtr]
    /\ cache_mutex_ = NoThread
    /\ pc = [t \in Threads |-> "idle"]
    /\ input = [t \in Threads |-> NoInput]
    /\ key = [t \in Threads |-> NoKey]
    /\ now = [t \in Threads |-> 0]
    /\ response = [t \in Threads |-> NoResponse]
    /\ manifest = [t \in Threads |-> NullPtr]
    /\ out_error = [t \in Threads |-> <<>>]
    /\ it = [t \in Threads |-> "none"]
    /\ ncalls = [t \in Threads |-> 0]
    /\ result = [t \in Threads |-> NoResult]
    /\ invalidated = NotInvalidated
    /\ raced = [t \in Threads |-> FALSE]
    /\ overtaken = [t \in Threads |-> FALSE]
    /\ late = {}

\* The clock moves forward.
Tick(c) ==
    /\ c \in ClockValues
    /\ c > clock
    /\ clock' = c
    /\ UNCHANGED <<cache_, cache_mutex_, pc, locals, history>>

\* std::lock_guard<std::mutex> lock(cache_mutex_): blocks until the mutex is free.
Lock(t, from, to) ==
    /\ pc[t] = from
    /\ cache_mutex_ = NoThread
    /\ cache_mutex_' = t
    /\ pc' = [pc EXCEPT ![t] = to]
    /\ UNCHANGED <<clock, cache_, locals, history>>

\* A lock_guard that outlives its block: the thread keeps the mutex.
UnlockNever(t) == t

\* The end of the block of a lock_guard: the mutex is free again.
Unlock(t) == NoThread

\* A scan that falls through to the default resolution on a failed fetch.
ScanResultSilent(m, table_name, error_msg) ==
    IF m = NullPtr THEN ReturnNull
    ELSE ReturnRef(BuildTableRef(m, table_name))

\* What ReplacementScanFunction does with what GetOrFetch returned.
ScanResult(m, table_name, error_msg) ==
    IF m = NullPtr THEN Throw(BinderException(table_name, error_msg))
    ELSE ReturnRef(BuildTableRef(m, table_name))

\* A scan that goes on to GetOrFetch without a secret.
ScanNoSecretFetches(t, schema_name, table_name) ==
    /\ pc[t] = "idle"
    /\ pc' = [pc EXCEPT ![t] = "lock_lookup"]
    /\ input' = [input EXCEPT ![t] = [op |-> "scan", secret |-> NoSecret,
                                      schema_name |-> schema_name,
                                      table_name |-> table_name]]
    /\ key' = [key EXCEPT ![t] = <<schema_name, ".", table_name>>]
    /\ now' = [now EXCEPT ![t] = clock]
    /\ UNCHANGED <<clock, cache_, cache_mutex_, response, manifest, out_error,
                   it, ncalls, result, history>>

\* ReplacementScanFunction, no duck_access secret: return nullptr.
ScanNoSecret(t, schema_name, table_name) ==
    /\ pc[t] = "idle"
    /\ pc' = [pc EXCEPT ![t] = "done"]
    /\ input' = [input EXCEPT ![t] = [op |-> "scan", secret |-> NoSecret,
                                      schema_name |-> schema_name,
                                      table_name |-> table_name]]
    /\ result' = [result EXCEPT ![t] = ReturnNull]
    /\ UNCHANGED <<clock, cache_, cache_mutex_, key, now, response, manifest,
                   out_error, it, ncalls, history>>

\* schema_name.empty() ? "main" : schema_name
EffectiveSchema(schema_name) == IF schema_name = "" THEN "main" ELSE schema_name

\* ReplacementScanFunction with a secret, up to the lock of GetOrFetch:
\* the key and now are taken before the lock.
ScanBegin(t, secret, schema_name, table_name) ==
    /\ pc[t] = "idle"
    /\ secret.present
    /\ pc' = [pc EXCEPT ![t] = "lock_lookup"]
    /\ input' = [input EXCEPT ![t] = [op |-> "scan", secret |-> secret,
                                      schema_name |-> schema_name,
                                      table_name |-> table_name]]
    /\ key' = [key EXCEPT ![t] = GetOrFetchKey(secret.api_url, secret.api_key,
                                              EffectiveSchema(schema_name), table_name)]
    /\ now' = [now EXCEPT ![t] = clock]
    /\ UNCHANGED <<clock, cache_, cache_mutex_, response, manifest, out_error,
                   it, ncalls, result, history>>

LockLookup(t) == Lock(t, "lock_lookup", "lookup")

\* A lookup that leaves the expired entry in the map.
EraseItSkipped(cache, k) == cache

\* cache_.erase(it): the entry found is removed (nothing to do for end()).
EraseIt(cache, k) == [cache EXCEPT ![k] = NullPtr]

\* GetOrFetch, the block under the first lock: return the entry when it is
\* still valid, erase it when it is not.
Lookup(t) ==
    /\ pc[t] = "lookup"
    /\ cache_mutex_ = t
    /\ cache_mutex_' = Unlock(t)
    /\ it' = [it EXCEPT ![t] = IF cache_[key[t]] = NullPtr THEN "end"
                                ELSE IF StillValid(cache_[key[t]], now[t]) THEN "valid"
                                ELSE "expired"]
    /\ IF cache_[key[t]] # NullPtr /\ StillValid(cache_[key[t]], now[t])
       THEN /\ manifest' = [manifest EXCEPT ![t] = cache_[key[t]]]
            /\ result' = [result EXCEPT ![t] =
                             ScanResult(cache_[key[t]], input[t].table_name, out_error[t])]
            /\ pc' = [pc EXCEPT ![t] = "done"]
            /\ UNCHANGED cache_
       ELSE /\ cache_' = EraseIt(cache_, key[t])
            /\ pc' = [pc EXCEPT ![t] = "call"]
            /\ UNCHANGED <<manifest, result>>
    /\ invalidated' = IF invalidated.key = key[t] THEN NotInvalidated ELSE invalidated
    /\ raced' = [raced EXCEPT ![t] = FALSE]
    /\ overtaken' = [overtaken EXCEPT ![t] = FALSE]
    /\ late' = IF cache_[key[t]] # NullPtr /\ StillValid(cache_[key[t]], now[t])
               THEN late ELSE late \ {key[t]}
    /\ UNCHANGED <<clock, input, key, now, response, out_error, ncalls>>

\* GetOrFetch calls DuckAccessHttp::PostJson: the request is on its way.
Call(t) ==
    /\ pc[t] = "call"
    /\ pc' = [pc EXCEPT ![t] = "await"]
    /\ ncalls' = [ncalls EXCEPT ![t] = @ + 1]
    /\ UNCHANGED <<clock, cache_, cache_mutex_, input, key, now, response, manifest,
                   out_error, it, result, history>>

\* {"table": table_name, "schema": schema_name}
RequestBody(schema_name, table_name) == [table |-> table_name, schema |-> schema_name]

\* PostJson returns; GetOrFetch classifies the response and parses a 2xx
\* body.  A failure returns nullptr and the scan throws.
Receive(t, outcome) ==
    /\ pc[t] = "await"
    /\ LET r == PostJson(input[t].secret.api_url \o <<"/manifest">>,
                         input[t].secret.api_key,
                         RequestBody(EffectiveSchema(input[t].schema_name),
                                     input[t].table_name),
                         outcome)
           c == Classify(r, clock)
       IN  /\ response' = [response EXCEPT ![t] = r]
           /\ manifest' = [manifest EXCEPT ![t] = c.manifest]
           /\ out_error' = [out_error EXCEPT ![t] = c.out_error]
           /\ IF c.manifest = NullPtr
              THEN /\ result' = [result EXCEPT ![t] =
                                    ScanResult(NullPtr, input[t].table_name, c.out_error)]
                   /\ pc' = [pc EXCEPT ![t] = "done"]
              ELSE /\ pc' = [pc EXCEPT ![t] = "lock_store"]
                   /\ UNCHANGED result
    /\ UNCHANGED <<clock, cache_, cache_mutex_, input, key, now, it, ncalls, history>>

LockStore(t) == Lock(t, "lock_store", "store")

\* A store that is dropped: the entry stays as it is.
StoreEntryDropped(old, new) == old

\* A store that updates the entry in place and keeps its old files.
StoreEntryInPlace(old, new) ==
    IF old = NullPtr THEN new ELSE [new EXCEPT !.files = old.files]

\* cache_[key] = manifest
StoreEntry(old, new) == new

\* A store that assigns through the pointer of the entry: the TableManifest
\* the entry pointed to takes the fields of the new one.
OverwrittenInPlace(old, new) == IF old = NullPtr THEN old ELSE new

\* What cache_[key] = manifest leaves of the TableManifest the entry pointed
\* to before: the assignment replaces the shared_ptr of the entry, the
\* object it pointed to is not written.
Overwritten(old, new) == old

\* GetOrFetch, the block under the second lock, and the return to the scan.
\* The threads that hold the TableManifest the entry pointed to keep it, as
\* the assignment left it.
Store(t) ==
    /\ pc[t] = "store"
    /\ cache_mutex_ = t
    /\ cache_mutex_' = Unlock(t)
    /\ cache_' = [cache_ EXCEPT ![key[t]] = StoreEntry(@, manifest[t])]
    /\ result' = [result EXCEPT ![t] =
                     ScanResult(manifest[t], input[t].table_name, out_error[t])]
    /\ pc' = [pc EXCEPT ![t] = "done"]
    /\ raced' = [u \in Threads |->
                    IF u # t /\ key[u] = key[t]
                       /\ pc[u] \in {"call", "await", "lock_store", "store"}
                    THEN TRUE ELSE raced[u]]
    /\ overtaken' = [overtaken EXCEPT ![t] = FALSE]
    /\ late' = IF overtaken[t] THEN late \cup {key[t]} ELSE late \ {key[t]}
    /\ manifest' = [u \in Threads |->
                       IF u # t /\ manifest[u] # NullPtr /\ manifest[u] = cache_[key[t]]
                       THEN Overwritten(manifest[u], manifest[t]) ELSE manifest[u]]
    /\ UNCHANGED <<clock, input, key, now, response, out_error, it, ncalls, invalidated>>

\* ManifestCache::Invalidate, up to its lock.
InvalidateBegin(t, schema_name, table_name) ==
    /\ pc[t] = "idle"
    /\ pc' = [pc EXCEPT ![t] = "lock_invalidate"]
    /\ input' = [input EXCEPT ![t] = [op |-> "invalidate", secret |-> NoSecret,
                                      schema_name |-> schema_name,
                                      table_name |-> table_name]]
    /\ key' = [key EXCEPT ![t] = KeyOfCall(schema_name, table_name)]
    /\ UNCHANGED <<clock, cache_, cache_mutex_, now, response, manifest, out_error,
                   it, ncalls, result, history>>

LockInvalidate(t) == Lock(t, "lock_invalidate", "invalidate")

\* Thread u is inside an operation on key k.
Operating(u, k) == pc[u] \notin {"idle", "done"} /\ key[u] = k

\* An Invalidate that clears the whole map.
EraseKeyAll(cache, k) == [kk \in DOMAIN cache |-> NullPtr]

\* An Invalidate that erases nothing.
EraseKeySkipped(cache, k) == cache

\* cache_.erase(key)
EraseKey(cache, k) == [cache EXCEPT ![k] = NullPtr]

\* ManifestCache::Invalidate under its lock: cache_.erase(key).
Invalidate(t) ==
    /\ pc[t] = "invalidate"
    /\ cache_mutex_ = t
    /\ cache_mutex_' = Unlock(t)
    /\ cache_' = EraseKey(cache_, key[t])
    /\ result' = [result EXCEPT ![t] = ReturnVoid]
    /\ pc' = [pc EXCEPT ![t] = "done"]
    /\ invalidated' = IF \A u \in Threads \ {t} : ~Operating(u, key[t])
                       THEN [key |-> key[t],
                             expires_at |-> IF cache_[key[t]] = NullPtr THEN -1
                                            ELSE cache_[key[t]].expires_at]
                       ELSE IF invalidated.key = key[t] THEN NotInvalidated
                       ELSE invalidated
    /\ overtaken' = [u \in Threads |->
                        IF u # t /\ key[u] = key[t]
                           /\ pc[u] \in {"await", "lock_store", "store"}
                        THEN TRUE ELSE overtaken[u]]
    /\ late' = late \ {key[t]}
    /\ UNCHANGED <<clock, input, key, now, response, manifest, out_error, it, ncalls,
                   raced>>

\* The caller takes the result; the locals of the operation go away.
Finish(t) ==
    /\ pc[t] = "done"
    /\ pc' = [pc EXCEPT ![t] = "idle"]
    /\ input' = [input EXCEPT ![t] = NoInput]
    /\ key' = [key EXCEPT ![t] = NoKey]
    /\ now' = [now EXCEPT ![t] = 0]
    /\ response' = [response EXCEPT ![t] = NoResponse]
    /\ manifest' = [manifest EXCEPT ![t] = NullPtr]
    /\ out_error' = [out_error EXCEPT ![t] = <<>>]
    /\ it' = [it EXCEPT ![t] = "none"]
    /\ ncalls' = [ncalls EXCEPT ![t] = 0]
    /\ result' = [result EXCEPT ![t] = NoResult]
    /\ raced' = [raced EXCEPT ![t] = FALSE]
    /\ overtaken' = [overtaken EXCEPT ![t] = FALSE]
    /\ UNCHANGED <<clock, cache_, cache_mutex_, invalidated, late>>

\* What a query binds: the session's secret (or none) and the table reference.
Scan(secret, schema_name, table_name) ==
    [secret |-> secret, schema_name |-> schema_name, table_name |-> table_name]

SecretA1 == Secret(<<"https", "://", "a.example/v1">>, "key_1")
SecretA2 == Secret(<<"https", "://", "a.example/v1">>, "key_2")
SecretB1 == Secret(<<"https", "://", "b.example/v1">>, "key_1")

\* The steps of the threads T, with the scans, the invalidations and the
\* network outcomes drawn from the given sets.
Step(T, scans, invalidations, outcomes) ==
    \/ \E c \in ClockValues : Tick(c)
    \/ \E t \in T, q \in scans :
           ~q.secret.present /\ ScanNoSecret(t, q.schema_name, q.table_name)
    \/ \E t \in T, q \in scans : ScanBegin(t, q.secret, q.schema_name, q.table_name)
    \/ \E t \in T : LockLookup(t)
    \/ \E t \in T : Lookup(t)
    \/ \E t \in T : Call(t)
    \/ \E t \in T, i \in outcomes : Receive(t, Outcomes[i])
    \/ \E t \in T : LockStore(t)
    \/ \E t \in T : Store(t)
    \/ \E t \in T, k \in invalidations : InvalidateBegin(t, k[1], k[2])
    \/ \E t \in T : LockInvalidate(t)
    \/ \E t \in T : Invalidate(t)
    \/ \E t \in T : Finish(t)

\* Concurrent binding: every thread, a few scans and outcomes.
CoreScans ==
    { Scan(SecretA1, "", "t1"), Scan(SecretA2, "main", "t2"),
      Scan(NoSecret, "main", "t1") }
CoreInvalidations == { <<"main", "t1">> }
\* No answer, a manifest, a manifest that has expired when it arrives.
CoreOutcomes ==
    {i \in 1..Len(Outcomes) :
        \/ Outcomes[i].error # <<>>
        \/ Outcomes[i].status_code = 200 /\ Outcomes[i].body.id \in {"plain", "expired"}}

Next == Step(Threads, CoreScans, CoreInvalidations, CoreOutcomes)

Spec == Init /\ [][Next]_vars

\* One thread binding one query after the other: every scan, every outcome.
AllScans ==
    {Scan(sec, s, tb) : sec \in Secrets \cup {NoSecret}, s \in Schemas, tb \in Tables}
AllInvalidations == Schemas \X Tables

NextSeq == Step({1}, AllScans, AllInvalidations, 1..Len(Outcomes))

SpecSeq == Init /\ [][NextSeq]_vars

\* ------------------------------------------------------------ properties

\* Thread t leaves the block under the first lock of GetOrFetch.
LookupStep(t) == pc[t] = "lookup" /\ pc'[t] # "lookup"

\* Thread t returns from GetOrFetch after PostJson gave no manifest.
FailedFetchStep(t) == pc[t] = "await" /\ pc'[t] = "done"

\* Thread t has returned from a scan that had a secret.
ScanDone(t) == pc[t] = "done" /\ input[t].op = "scan" /\ input[t].secret.present

\* C1: GetOrFetch returns the stored manifest with no Gateway call exactly
\* when an entry is stored under its key and now + 60 s < expires_at of that
\* entry (equality is stale); in every other case it takes the miss path and
\* has made exactly one PostJson call when it returns.
C1_CacheFreshness ==
    [][\A t \in Threads :
          /\ LookupStep(t) =>
                IF /\ cache_[key[t]] # NullPtr
                   /\ now[t] + safety_margin < cache_[key[t]].expires_at
                THEN /\ pc'[t] = "done"
                     /\ ncalls'[t] = 0
                     /\ manifest'[t] = cache_[key[t]]
                     /\ result'[t].kind = "ref"
                ELSE /\ pc'[t] = "call"
                     /\ ncalls'[t] = 0
          /\ (pc[t] \in {"await", "store"} /\ pc'[t] = "done") => ncalls'[t] = 1]_vars

\* A call served from the cache, with no PostJson call.
C1_Witness ==
    \E t \in Threads :
        /\ ScanDone(t) /\ it[t] = "valid" /\ ncalls[t] = 0
        /\ result[t].kind = "ref" /\ cache_[key[t]] = manifest[t]

\* C2: two GetOrFetch calls for the same (schema, table) with distinct
\* credentials (another api_key or another endpoint) use different cache
\* keys: the key of a running call differs from the key a call with any other
\* credential computes for the same schema and table.
C2_TenantIsolation ==
    \A t \in Threads :
        (pc[t] # "idle" /\ input[t].op = "scan" /\ input[t].secret.present) =>
            \A other \in Secrets \ {input[t].secret} :
                GetOrFetchKey(other.api_url, other.api_key,
                              EffectiveSchema(input[t].schema_name),
                              input[t].table_name) # key[t]

\* C3: after an Invalidate of a key that no other operation on the key
\* overlapped, the next lookup of that key by GetOrFetch finds no entry and
\* takes the miss path to the Gateway call, whatever the erased entry was.
C3_InvalidateForcesFetch ==
    [][\A t \in Threads :
          (LookupStep(t) /\ invalidated.key = key[t]) =>
              (pc'[t] = "call" /\ it'[t] = "end" /\ cache_[key[t]] = NullPtr)]_vars

\* A GetOrFetch about to look up a key whose erased entry would still be
\* valid at the call's now.
C3_Witness ==
    \E t \in Threads :
        /\ pc[t] = "lookup"
        /\ invalidated.key = key[t]
        /\ invalidated.expires_at - safety_margin > now[t]

\* C4 as stated: a GetOrFetch that found a stale entry erased it before the
\* Gateway call, and when the refetch fails it returns an error and the key
\* is absent.
C4_StaleThenAbsent ==
    [][\A t \in Threads :
          /\ (LookupStep(t) /\ pc'[t] = "call") =>
                (cache_'[key[t]] = NullPtr /\ ncalls'[t] = 0)
          /\ (FailedFetchStep(t) /\ it[t] = "expired") =>
                /\ result'[t].kind = "throw"
                /\ manifest'[t] = NullPtr
                /\ cache_'[key[t]] = NullPtr]_vars

\* C4 amended: ... and when the refetch fails the call returns an error, not
\* the stale manifest, and the key is absent when the call returns unless
\* another thread's GetOrFetch stored a manifest under the key after the
\* erase.
C4_StaleThenAbsentUnlessRaced ==
    [][\A t \in Threads :
          /\ (LookupStep(t) /\ pc'[t] = "call") =>
                (cache_'[key[t]] = NullPtr /\ ncalls'[t] = 0)
          /\ (FailedFetchStep(t) /\ it[t] = "expired") =>
                /\ result'[t].kind = "throw"
                /\ manifest'[t] = NullPtr
                /\ (cache_'[key[t]] = NullPtr \/ raced[t])]_vars

\* A failed refetch after a stale entry was found.
C4_Witness ==
    \E t \in Threads :
        /\ ScanDone(t) /\ it[t] = "expired" /\ ncalls[t] = 1
        /\ result[t].kind = "throw" /\ cache_[key[t]] = NullPtr

\* The body's files give an empty list: files absent, no array, empty, or
\* without any string.
NoFileInBody(doc) ==
    \/ "files" \notin DOMAIN doc.v
    \/ doc.v["files"].jt # "array"
    \/ \A i \in 1..Len(doc.v["files"].v) : doc.v["files"].v[i].jt # "string"

\* The body is an object whose table, schema and columns can be extracted,
\* so that the parse gets as far as its files list.
Extractable(doc) ==
    /\ doc.jt = "object"
    /\ JValue(doc, "table", "").exc = "none"
    /\ JValue(doc, "schema", "main").exc = "none"
    /\ (JContains(doc, "columns") /\ doc.v["columns"].jt = "array")
           => ColumnsOf(doc.v["columns"].v).exc = "none"

\* C5: a 2xx body whose resulting files list is empty makes the parse fail
\* with the no-data-files error and stores nothing; every manifest in the
\* cache or held by a caller has at least one file.
C5_NoFilesRejected ==
    /\ \A k \in Keys : cache_[k] # NullPtr => Len(cache_[k].files) >= 1
    /\ \A t \in Threads :
          /\ manifest[t] # NullPtr => Len(manifest[t].files) >= 1
          /\ ( /\ ScanDone(t) /\ ncalls[t] = 1
               /\ response[t].error = <<>> /\ Ok(response[t])
               /\ Extractable(response[t].body.doc)
               /\ NoFileInBody(response[t].body.doc) )
             => /\ manifest[t] = NullPtr
                /\ out_error[t] # <<>>
                /\ Head(out_error[t]) = "manifest contains no data files for table '"
                /\ result[t].kind = "throw"
                /\ cache_[key[t]] = NullPtr

\* A body whose files hold no string was received and rejected.
C5_Witness ==
    \E t \in Threads :
        /\ ScanDone(t) /\ response[t].status_code = 200
        /\ response[t].body.id = "files_no_string"
        /\ result[t].kind = "throw"

\* m is the complete manifest of one fetch: what the parser makes of one
\* body at one time.
WholeManifest(m, outcomes) ==
    \E i \in outcomes, c \in ClockValues :
        /\ Outcomes[i].error = <<>>
        /\ m = Classify(HttpResponse(Outcomes[i].status_code, Outcomes[i].body, <<>>),
                        c).manifest

\* C6: under any interleaving, every entry of the cache is the complete
\* manifest of one fetch, every call that succeeds returns the complete
\* manifest of its own fetch or the cached one of another fetch, and a store
\* replaces the entry by the storing call's manifest as a whole.
C6_NoTornManifest ==
    /\ [](\A k \in Keys : cache_[k] # NullPtr => WholeManifest(cache_[k], CoreOutcomes))
    /\ [](\A t \in Threads :
             (pc[t] = "done" /\ result[t].kind = "ref") =>
                 /\ WholeManifest(manifest[t], CoreOutcomes)
                 /\ \/ it[t] = "valid" /\ ncalls[t] = 0
                    \/ /\ ncalls[t] = 1
                       /\ manifest[t] = Classify(response[t], manifest[t].fetched_at).manifest)
    /\ [][\A t \in Threads :
             (pc[t] = "store" /\ pc'[t] = "done") =>
                 /\ cache_'[key[t]] = manifest[t]
                 /\ \A k \in Keys \ {key[t]} : cache_'[k] = cache_[k]]_vars

\* Two calls raced on one key, fetched different manifests, and both
\* returned; the cache holds the one stored last.
C6_Witness ==
    \E t, u \in Threads :
        /\ t # u /\ key[t] = key[u]
        /\ pc[t] = "done" /\ pc[u] = "done"
        /\ result[t].kind = "ref" /\ result[u].kind = "ref"
        /\ ncalls[t] = 1 /\ ncalls[u] = 1
        /\ raced[t]
        /\ manifest[t] # manifest[u]
        /\ cache_[key[t]] = manifest[u]

\* C7: without a duck_access secret the scan returns nullptr for every
\* (schema, table), makes no PostJson call and leaves the cache unchanged.
C7_NoSecretNotApplicable ==
    /\ [][\A t \in Threads :
             (pc[t] = "idle" /\ input'[t].op = "scan" /\ ~input'[t].secret.present) =>
                 /\ pc'[t] = "done"
                 /\ result'[t] = ReturnNull
                 /\ ncalls'[t] = 0
                 /\ cache_' = cache_]_vars
    /\ [](\A t \in Threads :
             (input[t].op = "scan" /\ ~input[t].secret.present) =>
                 (pc[t] = "done" /\ result[t] = ReturnNull /\ ncalls[t] = 0))

\* A scan without a secret returned nullptr while the cache held an entry.
C7_Witness ==
    \E t \in Threads :
        /\ pc[t] = "done" /\ input[t].op = "scan" /\ ~input[t].secret.present
        /\ result[t] = ReturnNull
        /\ \E k \in Keys : cache_[k] # NullPtr

\* The last Len(tail) pieces of msg are tail.
EndsWith(msg, tail) ==
    /\ Len(msg) >= Len(tail)
    /\ SubSeq(msg, Len(msg) - Len(tail) + 1, Len(msg)) = tail

\* C8: with a secret, a GetOrFetch that fails never gives nullptr and never
\* a TableRef: the scan throws an error that names the table and ends with
\* the cause GetOrFetch reported; a 404 whose body is
\* {"message": "no such table"} gives an error that contains that message.
C8_FailureAbortsBinding ==
    \A t \in Threads :
        ScanDone(t) =>
            /\ result[t].kind \in {"throw", "ref"}
            /\ manifest[t] = NullPtr =>
                  /\ result[t].kind = "throw"
                  /\ out_error[t] # <<>>
                  /\ Contains(result[t].message, input[t].table_name)
                  /\ EndsWith(result[t].message, out_error[t])
                  /\ response[t].error # <<>> =>
                         EndsWith(result[t].message, response[t].error)
                  /\ (response[t].status_code = 404 /\ response[t].body.id = "message")
                         => Contains(result[t].message, "no such table")

\* A 404 with a message was received and the scan threw.
C8_Witness ==
    \E t \in Threads :
        /\ ScanDone(t) /\ response[t].status_code = 404
        /\ response[t].body.id = "message"
        /\ result[t].kind = "throw"

\* C9: for a manifest without row filters and without column masks the scan
\* returns the table function read_parquet over the list of exactly the
\* manifest's files, in order, with no subquery around it, and its alias is
\* the table name of the query.
C9_DirectScan ==
    \A t \in Threads :
        ( /\ ScanDone(t) /\ result[t].kind = "ref"
          /\ manifest[t].row_filters = <<>>
          /\ DOMAIN manifest[t].column_masks = {} )
        => /\ result[t].ref.type = "TABLE_FUNCTION"
           /\ result[t].ref.function.function_name = "read_parquet"
           /\ result[t].ref.function.children = <<[list |-> manifest[t].files]>>
           /\ result[t].ref.alias = input[t].table_name

\* A manifest of two files for table t1 answered a query of t2.
C9_Witness ==
    \E t \in Threads :
        /\ ScanDone(t) /\ result[t].kind = "ref"
        /\ response[t].body.id = "plain"
        /\ input[t].table_name = "t2"
        /\ Len(manifest[t].files) = 2

\* C10: for a manifest with column masks the select list has one entry per
\* column, in order: the mask aliased to the column where the column has a
\* mask that parses, the bare column reference otherwise; the alias of the
\* subquery is the table name of the query.
C10_MaskedProjection ==
    \A t \in Threads :
        ( /\ ScanDone(t) /\ result[t].kind = "ref"
          /\ DOMAIN manifest[t].column_masks # {} )
        => LET m == manifest[t]
               ref == result[t].ref
           IN  /\ ref.type = "SUBQUERY"
               /\ ref.alias = input[t].table_name
               /\ Len(ref.select_list) = Len(m.columns)
               /\ \A i \in 1..Len(m.columns) :
                     LET c == m.columns[i].name
                     IN  IF c \in DOMAIN m.column_masks
                            /\ SqlExprs(m.column_masks[c]) # <<>>
                         THEN /\ ref.select_list[i].class = "PARSED"
                              /\ ref.select_list[i].text = m.column_masks[c]
                              /\ ref.select_list[i].alias = c
                         ELSE ref.select_list[i] = ColumnRefExpression(c)

\* The text of a row filter parses.
FilterParses(filter_sql) == SqlExprs(filter_sql) # <<>>

\* The AND of the given filters, each taken whole, from left to right.
RECURSIVE AndOfFilters(_, _)
AndOfFilters(filters, acc) ==
    IF filters = <<>> THEN acc
    ELSE AndOfFilters(Tail(filters),
                      IF acc = NoExpr THEN ParsedSql(Head(filters), "")
                      ELSE ConjunctionExpression(acc, ParsedSql(Head(filters), "")))

\* C11: for a manifest with row filters the WHERE clause of the subquery is
\* the left-to-right AND of exactly the filters that parse, in manifest
\* order; a filter that does not parse is skipped, and when none parses
\* there is no WHERE clause.
C11_FilterConjunction ==
    \A t \in Threads :
        ( /\ ScanDone(t) /\ result[t].kind = "ref"
          /\ manifest[t].row_filters # <<>> )
        => /\ result[t].ref.type = "SUBQUERY"
           /\ result[t].ref.where_clause =
                  AndOfFilters(SelectSeq(manifest[t].row_filters, FilterParses), NoExpr)

\* The names of the declared columns, in order.
DeclaredNames(m) == [i \in 1..Len(m.columns) |-> m.columns[i].name]

\* Column lists the parquet files of a manifest may hold: the declared
\* columns, or the declared columns and one more.
StoredSchemas(m) == {DeclaredNames(m), DeclaredNames(m) \o <<"ssn">>}

\* The output column a select list entry gives: its alias, else its text.
ExposedName(e) == IF e.alias # "" THEN e.alias ELSE e.text

\* The columns a TableRef exposes over files that hold the columns stored:
\* read_parquet and * give every column of the files.
Exposed(ref, stored) ==
    IF ref.type = "TABLE_FUNCTION" THEN stored
    ELSE IF ref.select_list = <<StarExpression>> THEN stored
    ELSE [i \in 1..Len(ref.select_list) |-> ExposedName(ref.select_list[i])]

\* C12: whichever of row_filters and column_masks are empty, the TableRef
\* the scan returns exposes exactly the columns the manifest declares,
\* whatever columns the files hold, and the select list never holds the bare
\* reference of a column whose mask parsed.
C12_ExposesDeclaredColumns ==
    \A t \in Threads :
        (ScanDone(t) /\ result[t].kind = "ref") =>
            LET m == manifest[t]
                ref == result[t].ref
            IN  /\ \A stored \in StoredSchemas(m) : Exposed(ref, stored) = DeclaredNames(m)
                /\ \A i \in 1..Len(m.columns) :
                      LET c == m.columns[i].name
                      IN  (c \in DOMAIN m.column_masks /\ SqlExprs(m.column_masks[c]) # <<>>)
                          => /\ ref.type = "SUBQUERY"
                             /\ ref.select_list # <<StarExpression>>
                             /\ ref.select_list[i] # ColumnRefExpression(c)

\* The response of thread t's finished call came with the given status.
Answered(t, status_code) ==
    /\ ScanDone(t) /\ ncalls[t] = 1
    /\ response[t].error = <<>>
    /\ response[t].status_code = status_code

\* The body is a JSON object with a string member "message".
HasMessage(body) ==
    /\ body.doc.jt = "object"
    /\ "message" \in DOMAIN body.doc.v
    /\ body.doc.v["message"].jt = "string"

\* The body is no JSON, or JSON without a member "message".
LacksMessage(body) ==
    \/ body.doc.jt = "invalid"
    \/ body.doc.jt = "object" /\ "message" \notin DOMAIN body.doc.v

\* C13: a 404 gives the error taken from the body's message when the body
\* has one, and "table not found on server" when the body is no JSON or
\* has no message.
C13_NotFoundMessage ==
    \A t \in Threads :
        Answered(t, 404) =>
            /\ HasMessage(response[t].body)
                   => out_error[t] = <<response[t].body.doc.v["message"].v>>
            /\ LacksMessage(response[t].body)
                   => out_error[t] = <<"table not found on server">>

\* The text of a JSON value as it would be shown in a message.
JText(v) == IF v.jt = "string" THEN v.v ELSE "5"

\* seq starts with the pieces of pre.
StartsWith(seq, pre) == Len(seq) >= Len(pre) /\ SubSeq(seq, 1, Len(pre)) = pre

\* The errors only ParseManifest gives.
IsParseError(err) ==
    /\ err # <<>>
    /\ Head(err) \in {"failed to parse manifest JSON: ", "error processing manifest: ",
                      "manifest contains no data files for table '"}

\* What GetOrFetch makes of every outcome but a 403 and a 404: a transport
\* failure, a 401, another status outside 2xx, and a 2xx body.
ClassifiedButForbidden(t) ==
    (ScanDone(t) /\ ncalls[t] = 1) =>
        /\ response[t].error # <<>> =>
              /\ manifest[t] = NullPtr
              /\ out_error[t] = <<"cannot reach API server: ">> \o response[t].error
        /\ Answered(t, 401) =>
              /\ manifest[t] = NullPtr
              /\ out_error[t] = <<"authentication failed - check your API key">>
        /\ ( /\ response[t].error = <<>>
             /\ ~Ok(response[t])
             /\ response[t].status_code \notin {401, 403, 404} ) =>
              LET text == response[t].body.text
                  shown == SubSeq(out_error[t], 4, Len(out_error[t]))
              IN  /\ manifest[t] = NullPtr
                  /\ StartsWith(out_error[t],
                                <<"API returned HTTP ", to_string(response[t].status_code)>>)
                  /\ text = <<>> => Len(out_error[t]) = 2
                  /\ text # <<>> =>
                        /\ out_error[t][3] = ": "
                        /\ Len(shown) <= body_prefix
                        /\ StartsWith(text, shown)
                        /\ Len(shown) = Len(text) \/ Len(shown) = body_prefix
        /\ (response[t].error # <<>> \/ ~Ok(response[t])) => ~IsParseError(out_error[t])
        /\ (response[t].error = <<>> /\ Ok(response[t])) =>
              \E c \in ClockValues :
                  /\ manifest[t] = ParseManifest(response[t].body, c).manifest
                  /\ out_error[t] = ParseManifest(response[t].body, c).out_error

\* C14 as stated: the classification above, and a 403 gives the message
\* member of the body whenever the body has one, else "access denied".
C14_ClassificationAnyMessage ==
    \A t \in Threads :
        /\ ClassifiedButForbidden(t)
        /\ Answered(t, 403) =>
              /\ manifest[t] = NullPtr
              /\ out_error[t] =
                    IF response[t].body.doc.jt = "object"
                       /\ "message" \in DOMAIN response[t].body.doc.v
                    THEN <<JText(response[t].body.doc.v["message"])>>
                    ELSE <<"access denied">>

\* C14: GetOrFetch classifies in this order: a transport failure gives
\* "cannot reach API server: " and the cause; a 401 the authentication
\* text; a 403 the message of the body when the body is a JSON object with
\* a string message, else "access denied"; another status outside 2xx the
\* status code and at most the first 200 bytes of the body; only a 2xx body
\* reaches the parser.
C14_ClassificationOrder ==
    \A t \in Threads :
        /\ ClassifiedButForbidden(t)
        /\ Answered(t, 403) =>
              /\ manifest[t] = NullPtr
              /\ out_error[t] =
                    IF HasMessage(response[t].body)
                    THEN <<response[t].body.doc.v["message"].v>>
                    ELSE <<"access denied">>

\* A 500 with a body of 201 bytes was answered with the first 200.
C14_Witness ==
    \E t \in Threads :
        /\ Answered(t, 500)
        /\ Len(response[t].body.text) = body_prefix + 1
        /\ Len(out_error[t]) = 3 + body_prefix

\* C15: Invalidate(schema, table) leaves no entry under its key, whatever
\* entry was there and also when none was; it changes the entry of no other
\* key, and from its call to its return it makes no PostJson call and
\* touches the cache in its erase only.
C15_InvalidateFrame ==
    /\ [][\A t \in Threads :
             /\ (pc[t] = "invalidate" /\ pc'[t] # "invalidate") =>
                   /\ cache_'[key[t]] = NullPtr
                   /\ \A k \in Keys \ {key[t]} : cache_'[k] = cache_[k]
                   /\ ncalls' = ncalls
                   /\ pc'[t] = "done"
                   /\ result'[t] = ReturnVoid
             /\ (pc[t] \in {"idle", "lock_invalidate"} /\ pc'[t] # pc[t]
                 /\ input'[t].op = "invalidate") => cache_' = cache_]_vars
    /\ [](\A t \in Threads :
             input[t].op = "invalidate" =>
                 /\ ncalls[t] = 0
                 /\ pc[t] \in {"lock_invalidate", "invalidate", "done"})

\* An Invalidate erased an entry that was still fresh and returned, while
\* another key kept its entry.
C15_Witness ==
    \E t \in Threads :
        /\ pc[t] = "done" /\ input[t].op = "invalidate"
        /\ invalidated.key = key[t]
        /\ invalidated.expires_at - safety_margin > clock
        /\ cache_[key[t]] = NullPtr
        /\ \E k \in Keys \ {key[t]} : cache_[k] # NullPtr

\* C16: a manifest is not changed after it is constructed: the manifest a
\* caller holds (returned to it, or parsed and about to be stored) keeps
\* its fields through every step of every thread, and the entry of a key
\* only ever changes to absent or to the whole manifest of the thread that
\* stores.
C16_ManifestImmutable ==
    [][/\ \A t \in Threads :
             /\ (pc[t] = "done" /\ pc'[t] = "done") =>
                   (manifest'[t] = manifest[t] /\ result'[t] = result[t])
             /\ (pc[t] \in {"lock_store", "store"} /\ manifest[t] # NullPtr) =>
                   manifest'[t] = manifest[t]
       /\ \A k \in Keys :
             cache_'[k] # cache_[k] =>
                 \/ cache_'[k] = NullPtr
                 \/ \E t \in Threads :
                        /\ pc[t] = "store" /\ pc'[t] = "done" /\ key[t] = k
                        /\ cache_'[k] = manifest[t]]_vars

\* A caller holds the manifest a cache hit gave it, and the entry has since
\* been replaced by another manifest.
C16_Witness ==
    \E t \in Threads :
        /\ pc[t] = "done" /\ result[t].kind = "ref" /\ it[t] = "valid"
        /\ cache_[key[t]] # NullPtr
        /\ cache_[key[t]] # manifest[t]

\* The steps a thread takes under the mutex, and the steps that wait for it.
CriticalSections == {"lookup", "store", "invalidate"}
LockSteps == {"lock_lookup", "lock_store", "lock_invalidate"}

\* Thread u can take its next step of GetOrFetch or Invalidate now.
CanProceed(u) ==
    ENABLED (\/ LockLookup(u) \/ Lookup(u) \/ Call(u) \/ LockStore(u) \/ Store(u)
             \/ LockInvalidate(u) \/ Invalidate(u))

\* C17: the mutex is held in the lookup, store and erase blocks only, never
\* by a thread that is about to call PostJson or is inside the call; while
\* a thread is inside the call, every other thread that runs a GetOrFetch or
\* an Invalidate can take its next step, or waits for a mutex holder that is
\* in its block and can leave it, whatever the call does.
C17_MutexNotHeldInCall ==
    /\ \A t \in Threads : cache_mutex_ = t => pc[t] \in CriticalSections
    /\ \A t \in Threads : pc[t] \in CriticalSections => cache_mutex_ = t
    /\ \A t \in Threads :
          pc[t] \in {"call", "await"} =>
              /\ cache_mutex_ # t
              /\ \A u \in Threads \ {t} :
                    pc[u] \in CriticalSections \cup LockSteps =>
                        \/ CanProceed(u)
                        \/ /\ cache_mutex_ \in Threads \ {t, u}
                           /\ pc[cache_mutex_] \in CriticalSections
                           /\ CanProceed(cache_mutex_)

\* While a thread is inside the call for one key, another thread is in the
\* store block of its GetOrFetch for another key.
C17_Witness ==
    \E t, u \in Threads :
        /\ pc[t] = "await" /\ pc[u] = "store"
        /\ cache_mutex_ = u
        /\ key[u] # key[t]
        /\ it[u] = "end"

\* C18: what a GetOrFetch miss does to the cache.  Its lookup inserts
\* nothing (it can only erase the entry of its own key); its call and the
\* receipt of the response change nothing; a failed fetch returns the error
\* with the cache as it was; a successful fetch puts exactly the manifest it
\* returns under its own key, over whatever entry is there, and changes no
\* other key.
C18_CacheChangesOnSuccessOnly ==
    [][\A t \in Threads :
          /\ (LookupStep(t) /\ pc'[t] = "call") =>
                /\ cache_'[key[t]] = NullPtr
                /\ \A k \in Keys \ {key[t]} : cache_'[k] = cache_[k]
          /\ (pc[t] \in {"call", "await", "lock_store"} /\ pc'[t] # pc[t]) =>
                cache_' = cache_
          /\ FailedFetchStep(t) =>
                /\ cache_' = cache_
                /\ manifest'[t] = NullPtr
                /\ result'[t].kind = "throw"
          /\ (pc[t] = "store" /\ pc'[t] = "done") =>
                /\ manifest[t] # NullPtr
                /\ manifest'[t] = manifest[t]
                /\ result'[t].kind = "ref"
                /\ cache_' = [cache_ EXCEPT ![key[t]] = manifest[t]]]_vars

\* A fetch succeeded after another thread had stored a different manifest
\* under the same key meanwhile, and the cache holds the manifest returned.
C18_Witness ==
    \E t \in Threads :
        /\ ScanDone(t) /\ ncalls[t] = 1 /\ result[t].kind = "ref"
        /\ raced[t]
        /\ cache_[key[t]] = manifest[t]
        /\ \E u \in Threads \ {t} :
              /\ key[u] = key[t] /\ ScanDone(u) /\ result[u].kind = "ref"
              /\ manifest[u] # manifest[t]

\* The body gives no usable expires_at: absent, no string, or unparsable.
NoExpiryInBody(doc) ==
    \/ "expires_at" \notin DOMAIN doc.v
    \/ doc.v["expires_at"].jt # "string"
    \/ ParseTime(doc.v["expires_at"].v) = -1

\* C19: a 2xx body with no usable expires_at, and otherwise parsable with a
\* file, gives a manifest with expires_at = fetched_at + 1 hour, which is
\* stored; a lookup that finds such an entry returns it exactly while
\* now + 60 s < fetched_at + 1 hour.
C19_ExpiryFallback ==
    /\ [](\A t \in Threads :
             ( /\ ScanDone(t) /\ ncalls[t] = 1
               /\ response[t].error = <<>> /\ Ok(response[t])
               /\ Extractable(response[t].body.doc)
               /\ ~NoFileInBody(response[t].body.doc)
               /\ NoExpiryInBody(response[t].body.doc) )
             => /\ manifest[t] # NullPtr
                /\ result[t].kind = "ref"
                /\ manifest[t].expires_at = manifest[t].fetched_at + one_hour
                /\ cache_[key[t]] = manifest[t])
    /\ [][\A t \in Threads :
             ( /\ LookupStep(t)
               /\ cache_[key[t]] # NullPtr
               /\ cache_[key[t]].expires_at = cache_[key[t]].fetched_at + one_hour )
             => IF now[t] + safety_margin < cache_[key[t]].fetched_at + one_hour
                THEN pc'[t] = "done" /\ manifest'[t] = cache_[key[t]]
                     /\ cache_'[key[t]] = cache_[key[t]]
                ELSE pc'[t] = "call" /\ cache_'[key[t]] = NullPtr]_vars

\* A manifest fetched at 0 without expires_at was served from the cache at
\* time 60.
C19_Witness ==
    \E t \in Threads :
        /\ ScanDone(t) /\ it[t] = "valid" /\ ncalls[t] = 0
        /\ now[t] = 60
        /\ manifest[t].fetched_at = 0
        /\ manifest[t].expires_at = one_hour

\* The next step of thread t's operation that waits for nothing: the blocks
\* under the mutex, the call, and the return of PostJson, which answers or
\* fails within its timeout.
Progress(t) ==
    \/ Lookup(t) \/ Call(t) \/ Store(t) \/ Invalidate(t)
    \/ \E i \in CoreOutcomes : Receive(t, Outcomes[i])

\* Thread t takes the mutex.
Acquire(t) == LockLookup(t) \/ LockStore(t) \/ LockInvalidate(t)

\* Fair scheduling: a thread that can run does run, and a thread that waits
\* for the mutex gets it when it is free again and again.
Fairness == \A t \in Threads : WF_vars(Progress(t)) /\ SF_vars(Acquire(t))

\* Concurrent binding under fair scheduling: scans of one table, with and
\* without a secret, and invalidations of that table and of another.
LiveScans == { Scan(SecretA1, "", "t1"), Scan(NoSecret, "main", "t1") }
LiveInvalidations == { <<"main", "t1">>, <<"main", "t2">> }

NextFair == Step(Threads, LiveScans, LiveInvalidations, CoreOutcomes)

SpecFair == Init /\ [][NextFair]_vars /\ Fairness

C21_InvalidateDoesNotCancel ==
    /\ [](\A k \in late : cache_[k] # NullPtr)
    /\ [][\A t \in Threads :
             /\ (~overtaken[t] /\ overtaken'[t]) =>
                   /\ pc[t] \in {"await", "lock_store"} /\ pc'[t] = pc[t]
                   /\ manifest'[t] = manifest[t] /\ response'[t] = response[t]
                   /\ cache_'[key[t]] = NullPtr
             /\ (pc[t] = "store" /\ pc'[t] = "done" /\ overtaken[t]) =>
                   /\ cache_'[key[t]] = manifest[t]
                   /\ result'[t].kind = "ref"
                   /\ key[t] \in late'
             /\ (LookupStep(t) /\ key[t] \in late
                 /\ StillValid(cache_[key[t]], now[t])) =>
                   /\ pc'[t] = "done" /\ ncalls'[t] = 0
                   /\ manifest'[t] = cache_[key[t]]
                   /\ result'[t].kind = "ref"]_vars

\* A GetOrFetch that began after the Invalidate returned is at its lookup,
\* and the key holds a still valid entry stored by a fetch whose call began
\* before the Invalidate.
C21_Witness ==
    \E t \in Threads :
        /\ pc[t] = "lookup" /\ input[t].op = "scan"
        /\ key[t] \in late
        /\ StillValid(cache_[key[t]], now[t])
        /\ \A u \in Threads : input[u].op # "invalidate"

\* The manifest was within the safety margin of its expiry, or past it,
\* when it was fetched.
StaleOnArrival(m) == m.expires_at - safety_margin <= m.fetched_at

\* GetOrFetch returns and stores a manifest it has just fetched without a
\* test of its freshness.
StoredUnchecked(t) ==
    (pc[t] = "store" /\ pc'[t] = "done" /\ StaleOnArrival(manifest[t])) =>
        /\ cache_'[key[t]] = manifest[t]
        /\ manifest'[t] = manifest[t]
        /\ result'[t].kind = "ref"

\* C22 as stated: a manifest that is stale on arrival is returned and
\* stored, and every lookup that finds it afterwards erases it and goes on
\* to a PostJson call.
C22_StaleOnArrivalNeverServed ==
    [][\A t \in Threads :
          /\ StoredUnchecked(t)
          /\ ( /\ LookupStep(t)
               /\ cache_[key[t]] # NullPtr
               /\ StaleOnArrival(cache_[key[t]]) )
             => /\ pc'[t] = "call"
                /\ cache_'[key[t]] = NullPtr]_vars

\* C22: a manifest that is stale on arrival is returned and stored, and
\* every lookup of a GetOrFetch that read its clock no earlier than the
\* fetch did erases it and goes on to a PostJson call.
C22_StaleOnArrivalNotServedLater ==
    [][\A t \in Threads :
          /\ StoredUnchecked(t)
          /\ ( /\ LookupStep(t)
               /\ cache_[key[t]] # NullPtr
               /\ StaleOnArrival(cache_[key[t]])
               /\ now[t] >= cache_[key[t]].fetched_at )
             => /\ pc'[t] = "call"
                /\ cache_'[key[t]] = NullPtr
                /\ it'[t] = "expired"]_vars

\* A GetOrFetch that began after the fetch is at its lookup and the key
\* holds a manifest that was stale on arrival.
C22_Witness ==
    \E t \in Threads :
        /\ pc[t] = "lookup"
        /\ cache_[key[t]] # NullPtr
        /\ StaleOnArrival(cache_[key[t]])
        /\ now[t] >= cache_[key[t]].fetched_at
        /\ cache_[key[t]].expires_at > cache_[key[t]].fetched_at

=============================================================================
